---------------------------- MODULE Spec2Model ----------------------------
(***************************************************************************)
(* A model of update.py, the snapshot tool of LizardByte/uno.              *)
(*                                                                         *)
(* Three parts of the program are modelled, each with its own              *)
(* specification over the same variables:                                  *)
(*   SpecFetch / FairSpecFetch  readthedocs_loop, one page per step        *)
(*   SpecChart                  the sort and the bar drawing of            *)
(*                              update_crowdin                             *)
(*   Spec                       __main__: the credential check, the thread *)
(*                              fan-out, and the eight update_* jobs       *)
(***************************************************************************)
EXTENDS Integers, Sequences, FiniteSets, TLC

VARIABLES
    \* ---- readthedocs_loop ----
    srv,        \* the documentation API: URL -> the page it answers with
    url,        \* local `url` (0 stands for a falsy value: None or '')
    results,    \* local `results`
    loopPc,     \* "idle" | "get" | "response" | "tail" | "returned"
    log,        \* history: the URLs of the GET requests issued, in order
    sink,       \* history: the data of each write_json_files call of the loop
    ret,        \* the value returned
    \* ---- update_crowdin: sort and chart ----
    progress,   \* what get_project_progress answered (in API order)
    data,       \* local `data`
    chartPc,    \* "idle" | "sort" | "draw" | "done"
    row,        \* position of the for loop over data (1-based)
    drawn,      \* history: the rows added to the drawing, in order
    \* ---- __main__ and the eight jobs ----
    args,       \* credential name -> whether it has a non-empty value
    mainPc,     \* "check" | "start" | "end" | "usage" | "exited"
    next_thread,\* index in `threads` of the next thread to start
    th,         \* job name -> "new" | "run" | "done" | "dead"
    at,         \* job name -> position inside the job
    httpCalls,  \* history: number of HTTP requests issued so far
    files,      \* history: the set of <<job, path>> file writes so far
    usage,      \* whether print_help ran
    exitCode    \* -1 while the process lives, then its exit status

fetchVars == <<srv, url, results, loopPc, log, sink, ret>>
chartVars == <<progress, data, chartPc, row, drawn>>
runVars   == <<args, mainPc, next_thread, th, at, httpCalls, files, usage, exitCode>>
vars      == <<srv, url, results, loopPc, log, sink, ret,
               progress, data, chartPc, row, drawn,
               args, mainPc, next_thread, th, at, httpCalls, files, usage, exitCode>>

(***************************************************************************)
(* Bounds                                                                  *)
(***************************************************************************)
NumUrls == 3
MaxLangs == 3
MaxList == 1

(***************************************************************************)
(* readthedocs_loop (update.py 340-371)                                    *)
(***************************************************************************)
Urls == 1..NumUrls
StartUrl == CHOOSE u \in Urls : \A v \in Urls : u <= v

\* The `results` lists a page may carry.
PageLists == {<<>>, <<"a">>, <<"a", "b">>}

\* A response body: unparseable, or a JSON object with an optional 'results'
\* list and an optional 'next' (0: null or empty string, else a URL).
BadBody == [json |-> FALSE, hasResults |-> FALSE, results |-> <<>>,
            hasNext |-> FALSE, next |-> 0]
Body(hr, rs, hn, nx) ==
    [json |-> TRUE, hasResults |-> hr, results |-> rs, hasNext |-> hn, next |-> nx]
Pages ==
    {BadBody} \cup
    { Body(TRUE, rs, TRUE, nx) : rs \in PageLists, nx \in {0} \cup Urls } \cup
    { Body(TRUE, rs, FALSE, 0) : rs \in PageLists } \cup
    { Body(FALSE, <<>>, TRUE, nx) : nx \in {0} \cup Urls } \cup
    { Body(FALSE, <<>>, FALSE, 0) }

\* try: url = data['next'] / except KeyError: url = None
NextUrl(page) == IF page.hasNext THEN page.next ELSE 0

\* The URL the loop would request after u, 0 when it would stop.
Succ(s, u) == IF s[u].json THEN NextUrl(s[u]) ELSE 0

RECURSIVE ReachFrom(_, _, _)
ReachFrom(s, u, fuel) ==
    IF u = 0 \/ fuel = 0 THEN {}
    ELSE {u} \cup ReachFrom(s, Succ(s, u), fuel - 1)

Visited(s) == ReachFrom(s, StartUrl, NumUrls)

\* u lies on a cycle of 'next' links.
RECURSIVE Returns(_, _, _, _)
Returns(s, u, target, fuel) ==
    IF u = 0 \/ fuel = 0 THEN FALSE
    ELSE Succ(s, u) = target \/ Returns(s, Succ(s, u), target, fuel - 1)

OnCycle(s, u) == Returns(s, u, u, NumUrls)

\* The servers considered: pages never requested are left unparseable, so that
\* two servers differ only in what the loop can see.
Servers ==
    { s \in [Urls -> Pages] : \A u \in Urls \ Visited(s) : s[u] = BadBody }

\* A finite chain of pages: no 'next' leads back to a URL already requested.
ChainServers == { s \in Servers : \A u \in Visited(s) : ~OnCycle(s, u) }

\* Servers with arbitrary 'next' links.  A page on a cycle carries no records:
\* records on a cycle make `results` grow without bound.
CycleServers ==
    { s \in Servers : \A u \in Visited(s) : OnCycle(s, u) => s[u].results = <<>> }

\* try: results.extend(data['results']) / except KeyError: pass
ExtendDedup(acc, page) ==
    IF page.hasResults
    THEN acc \o SelectSeq(page.results, LAMBDA r : \A i \in 1..Len(acc) : acc[i] # r)
    ELSE acc
Extend(acc, page) == IF page.hasResults THEN acc \o page.results ELSE acc

\* except requests.exceptions.JSONDecodeError: break -- `results` is kept
OnDecodeErrorDrop(acc) == <<>>
OnDecodeError(acc) == acc

\* if results: write_json_files(...)
ShouldWriteAlways(acc) == TRUE
ShouldWrite(acc) == acc # <<>>

\* response = s.get(url=url, headers=headers): the request is sent and the
\* loop waits for the answer.
SendRequest ==
    /\ loopPc = "get"
    /\ loopPc' = "response"
    /\ UNCHANGED <<srv, url, results, sink, ret>>
    /\ UNCHANGED <<chartVars, runVars>>

Request == SendRequest /\ log' = Append(log, url)

\* The same request in the specification that keeps no request history.
RequestUnlogged == SendRequest /\ UNCHANGED log

\* The rest of one iteration of `while True` (update.py 350-366).
Response ==
    /\ loopPc = "response"
    /\ LET page == srv[url] IN
        IF ~page.json
        THEN /\ results' = OnDecodeError(results)
             /\ url' = url
             /\ loopPc' = "tail"
        ELSE /\ results' = Extend(results, page)
             /\ url' = NextUrl(page)
             /\ loopPc' = IF NextUrl(page) = 0 THEN "tail" ELSE "get"
    /\ UNCHANGED <<srv, log, sink, ret>>
    /\ UNCHANGED <<chartVars, runVars>>

\* After the loop (update.py 368-371).
Return ==
    /\ loopPc = "tail"
    /\ sink' = IF ShouldWrite(results) THEN Append(sink, results) ELSE sink
    /\ ret' = results
    /\ loopPc' = "returned"
    /\ UNCHANGED <<srv, url, results, log>>
    /\ UNCHANGED <<chartVars, runVars>>

(***************************************************************************)
(* update_crowdin: ordering and drawing of the progress chart              *)
(* (update.py 147-229)                                                     *)
(***************************************************************************)
line_height == 32
progress_width == 160

\* language id -> display name, and the display names in str order.
LangName == [en |-> "English", fr |-> "French", de |-> "German", es |-> "Spanish"]
LangIds == DOMAIN LangName
NamesInOrder == <<"English", "French", "German", "Spanish">>
NameRank(n) == CHOOSE i \in 1..Len(NamesInOrder) : NamesInOrder[i] = n

\* translationProgress and approvalProgress as the API reports them.
Pcts == {0, 50, 100}

\* x['data'] of one element of the progress list.
Entries ==
    { [id |-> l, name |-> LangName[l], translationProgress |-> t, approvalProgress |-> a] :
        l \in LangIds, t \in Pcts, a \in Pcts }

\* The progress lists of a project: one entry per language, in any order.
ProgressLists ==
    UNION { { p \in [1..n -> Entries] :
                \A i, j \in 1..n : i # j => p[i].id # p[j].id } : n \in 0..MaxLangs }

\* key=lambda x: (-approvalProgress, -translationProgress, language name)
SortKeyAscending(x) == <<x.approvalProgress, -x.translationProgress, NameRank(x.name)>>
SortKey(x) == <<-x.approvalProgress, -x.translationProgress, NameRank(x.name)>>

\* Python's tuple comparison k1 < k2 on keys of three integers.
TupleLess(k1, k2) ==
    \/ k1[1] < k2[1]
    \/ k1[1] = k2[1] /\ k1[2] < k2[2]
    \/ k1[1] = k2[1] /\ k1[2] = k2[2] /\ k1[3] < k2[3]

\* list.sort is stable: x goes after every element whose key is not greater.
RECURSIVE Insert(_, _)
Insert(sorted, x) ==
    IF sorted = <<>> THEN <<x>>
    ELSE IF TupleLess(SortKey(x), SortKey(Head(sorted)))
         THEN <<x>> \o sorted
         ELSE <<Head(sorted)>> \o Insert(Tail(sorted), x)

RECURSIVE ListSort(_)
ListSort(list) ==
    IF list = <<>> THEN <<>>
    ELSE Insert(ListSort(SubSeq(list, 1, Len(list) - 1)), list[Len(list)])

\* [x id for x in data].index('en'); 0 stands for ValueError.
EnIndex(list) ==
    IF \E i \in 1..Len(list) : list[i].id = "en"
    THEN CHOOSE i \in 1..Len(list) :
            list[i].id = "en" /\ \A j \in 1..(i - 1) : list[j].id # "en"
    ELSE 0

\* data.insert(0, data.pop(en_index)) when 'en' is found, else pass.
EnFirst(list) ==
    LET i == EnIndex(list) IN
    IF i = 0 THEN list
    ELSE <<list[i]>> \o SubSeq(list, 1, i - 1) \o SubSeq(list, i + 1, Len(list))

\* data.index(lang_base): the first position holding an equal element.
IndexOf(list, x) == CHOOSE i \in 1..Len(list) : list[i] = x /\ \A j \in 1..(i - 1) : list[j] # x

\* The rectangles added for one language (update.py 195-223).  A progress is
\* the percentage divided by 100.0: p/100 < 100 is p < 100 * 100, and
\* p/100 > 0 is p > 0.  A width is kept in hundredths: w100 = 100 * width.
Bars(language) ==
    LET t == language.translationProgress
        a == language.approvalProgress
    IN  (IF t < 100 * 100
         THEN <<[fill |-> "#999", w100 |-> progress_width * 100]>> ELSE <<>>)
        \o
        (IF t > 0 /\ a < 100 * 100
         THEN <<[fill |-> "#5D89C3", w100 |-> progress_width * t]>> ELSE <<>>)
        \o
        (IF a > 0
         THEN <<[fill |-> "#71C277", w100 |-> progress_width * a]>> ELSE <<>>)

\* update.py 147-160: sort, then 'en' first.
SortData ==
    /\ chartPc = "sort"
    /\ data' = EnFirst(ListSort(progress))
    /\ row' = 1
    /\ chartPc' = IF progress = <<>> THEN "done" ELSE "draw"
    /\ UNCHANGED <<progress, drawn>>
    /\ UNCHANGED <<fetchVars, runVars>>

\* update.py 183-229: one iteration of `for lang_base in data`.
DrawRow ==
    /\ chartPc = "draw"
    /\ row <= Len(data)
    /\ LET language == data[row] IN
        drawn' = Append(drawn,
                    [id |-> language.id,
                     translationProgress |-> language.translationProgress,
                     approvalProgress |-> language.approvalProgress,
                     translate |-> (IndexOf(data, language) - 1) * line_height,
                     bars |-> Bars(language)])
    /\ row' = row + 1
    /\ chartPc' = IF row = Len(data) THEN "done" ELSE "draw"
    /\ UNCHANGED <<progress, data>>
    /\ UNCHANGED <<fetchVars, runVars>>

(***************************************************************************)
(* Output paths (update.py 26, 48-56, 78-83)                               *)
(*                                                                         *)
(* A path is kept relative to BASE_DIR, as the sequence of its segments:   *)
(* a name the API gives with a '/' in it is several segments.  The file    *)
(* opened is open(f'{file_path}{suffix}'): the operating system resolves   *)
(* each '..' of the directory part, and the last segment with the suffix   *)
(* is the file name.                                                       *)
(***************************************************************************)
RECURSIVE Resolve(_, _)
Resolve(done, rest) ==
    IF rest = <<>> THEN done
    ELSE IF Head(rest) = ".." /\ done # <<>> /\ done[Len(done)] # ".."
         THEN Resolve(SubSeq(done, 1, Len(done) - 1), Tail(rest))
         ELSE Resolve(Append(done, Head(rest)), Tail(rest))

\* os.path.join(BASE_DIR, *parts) followed by open(path + suffix).
OpenedFile(parts, suffix) ==
    [dir |-> Resolve(<<>>, SubSeq(parts, 1, Len(parts) - 1)),
     name |-> parts[Len(parts)],
     suffix |-> suffix]

\* project_name.replace(' ', '_'), on the names the model draws from.
ReplaceSpaces(name) == [i \in 1..Len(name) |-> IF name[i] = "uno docs" THEN "uno_docs" ELSE name[i]]

\* git_url.rsplit('/', 1)[-1].rsplit('.git', 1)[0], on the URLs the model draws from.
RepoName(git_url) ==
    IF git_url = "https://github.com/LizardByte/uno.git" THEN "uno" ELSE "Sunshine"

\* The lists of at most MaxList different elements of a set: what a listing
\* endpoint may answer with.
ListsOf(S) ==
    UNION { { l \in [1..n -> S] : \A i, j \in 1..n : i # j => l[i] # l[j] } : n \in 0..MaxList }

\* The names the APIs may answer with.  A name is the sequence of its path
\* segments: the second project name is '../discord/invite'.
CodecovRepos == ListsOf({<<"uno">>})
GithubRepos == ListsOf({<<"uno">>, <<"Sunshine">>})
CrowdinProjects == ListsOf({<<"uno docs">>, <<"..", "discord", "invite">>})

\* The documentation projects: the clone URL and the keys of '_links', in the
\* order of the object.
RtdProjects ==
    ListsOf({ [git_url |-> "https://github.com/LizardByte/uno.git",
               links |-> <<<<"builds">>, <<"versions">>>>],
              [git_url |-> "https://github.com/LizardByte/Sunshine",
               links |-> <<>>] })

\* for project in projects: for link in project['_links']: the (link, repo_name) pairs.
RECURSIVE LinkPairs(_)
LinkPairs(projects) ==
    IF projects = <<>> THEN <<>>
    ELSE LET p == Head(projects) IN
         [i \in 1..Len(p.links) |-> [link |-> p.links[i], repo_name |-> RepoName(p.git_url)]]
         \o LinkPairs(Tail(projects))

(***************************************************************************)
(* __main__ (update.py 402-473)                                            *)
(***************************************************************************)
Creds == {"codecov_token", "crowdin_token", "discord_invite", "facebook_group_id",
          "facebook_page_id", "facebook_token", "github_repository_owner",
          "github_auth_token", "readthedocs_token"}

\* threads = [...], in the order of the list.
threads == <<"aur", "codecov", "crowdin", "discord", "facebook", "github",
             "patreon", "readthedocs">>
Jobs == { threads[i] : i \in 1..Len(threads) }

\* The condition of update.py 432-434, negated: no checked argument is falsy.
ArgsPresent(a) ==
    /\ a["codecov_token"] /\ a["discord_invite"] /\ a["facebook_group_id"]
    /\ a["facebook_page_id"] /\ a["facebook_token"] /\ a["github_repository_owner"]
    /\ a["github_auth_token"] /\ a["readthedocs_token"]

\* if not args...: missing_arg() -- print_help, raise SystemExit(1)
CheckArgs ==
    /\ mainPc = "check"
    /\ IF ArgsPresent(args)
       THEN /\ mainPc' = "start"
            /\ UNCHANGED <<usage, exitCode>>
       ELSE /\ usage' = TRUE
            /\ exitCode' = 1
            /\ mainPc' = "exited"
    /\ UNCHANGED <<args, next_thread, th, at, httpCalls, files>>
    /\ UNCHANGED <<fetchVars, chartVars>>

\* for thread in threads: thread.start()
StartThread ==
    /\ mainPc = "start"
    /\ th' = [th EXCEPT ![threads[next_thread]] = "run"]
    /\ next_thread' = next_thread + 1
    /\ mainPc' = IF next_thread = Len(threads) THEN "end" ELSE "start"
    /\ UNCHANGED <<args, at, httpCalls, files, usage, exitCode>>
    /\ UNCHANGED <<fetchVars, chartVars>>

\* The threads are created without daemon=True: the interpreter ends only when
\* each of them has ended, and the main thread ended normally.
ThreadsEndedDaemon(t) == TRUE
ThreadsEnded(t) == \A j \in Jobs : t[j] \in {"done", "dead"}

ProcessExit ==
    /\ mainPc = "end"
    /\ ThreadsEnded(th)
    /\ exitCode' = 0
    /\ mainPc' = "exited"
    /\ UNCHANGED <<args, next_thread, th, at, httpCalls, files, usage>>
    /\ UNCHANGED <<fetchVars, chartVars>>

(***************************************************************************)
(* The jobs.  A step of a job is one request and what the job does with    *)
(* the answer up to its next request.                                      *)
(***************************************************************************)
\* A step of job j: n requests, the files written, the job's next position.
Step(j, n, written, pc, todo) ==
    /\ httpCalls' = httpCalls + n
    /\ files' = files \cup { <<j, f>> : f \in written }
    /\ at' = [at EXCEPT ![j] = [pc |-> pc, todo |-> todo]]
    /\ th' = [th EXCEPT ![j] = IF pc \in {"done", "dead"} THEN pc ELSE "run"]
    /\ UNCHANGED <<args, mainPc, next_thread, usage, exitCode>>
    /\ UNCHANGED <<fetchVars, chartVars>>

Running(j, pc) == th[j] = "run" /\ at[j].pc = pc

\* update_aur (update.py 86-100): aur_repos = ['sunshine']
update_aur ==
    /\ Running("aur", "begin")
    /\ Step("aur", 1, {OpenedFile(<<"aur", "sunshine">>, ".json")}, "done", <<>>)

\* update_codecov (update.py 103-127)
codecov_list ==
    /\ Running("codecov", "begin")
    /\ \E next_is_none \in BOOLEAN, repos \in CodecovRepos :
         IF ~next_is_none
         THEN Step("codecov", 1, {}, "dead", <<>>)
         ELSE Step("codecov", 1, {}, IF repos = <<>> THEN "done" ELSE "repo", repos)

codecov_repo ==
    /\ Running("codecov", "repo")
    /\ LET repo == Head(at["codecov"].todo)
           rest == Tail(at["codecov"].todo)
       IN Step("codecov", 1, {OpenedFile(<<"codecov">> \o repo, ".json")},
               IF rest = <<>> THEN "done" ELSE "repo", rest)

\* update_crowdin (update.py 130-229)
\* Without a token the localization API refuses the request and the client raises.
crowdin_list ==
    /\ Running("crowdin", "begin")
    /\ IF ~args["crowdin_token"]
       THEN Step("crowdin", 1, {}, "dead", <<>>)
       ELSE \E projects \in CrowdinProjects :
              Step("crowdin", 1, {}, IF projects = <<>> THEN "done" ELSE "project", projects)

crowdin_project ==
    /\ Running("crowdin", "project")
    /\ LET file_path == <<"crowdin">> \o ReplaceSpaces(Head(at["crowdin"].todo))
           rest == Tail(at["crowdin"].todo)
       IN \E has_languages \in BOOLEAN :
            Step("crowdin", 1,
                 {OpenedFile(file_path, ".json")} \cup
                    (IF has_languages THEN {OpenedFile(file_path, "_graph.svg")} ELSE {}),
                 IF rest = <<>> THEN "done" ELSE "project", rest)

\* update_discord (update.py 232-243)
update_discord ==
    /\ Running("discord", "begin")
    /\ Step("discord", 1, {OpenedFile(<<"discord", "invite">>, ".json")}, "done", <<>>)

\* update_fb (update.py 246-273): fb_endpoints has the keys group and page
update_fb ==
    /\ th["facebook"] = "run"
    /\ LET key == IF at["facebook"].pc = "begin" THEN "group" ELSE "page"
       IN Step("facebook", 1, {OpenedFile(<<"facebook", key>>, ".json")},
               IF key = "group" THEN "page" ELSE "done", <<>>)

\* update_github (update.py 276-322)
github_repos ==
    /\ Running("github", "begin")
    /\ \E repos \in GithubRepos :
         Step("github", 1, {OpenedFile(<<"github", "repos">>, ".json")},
              IF repos = <<>> THEN "done" ELSE "languages", repos)

github_languages ==
    /\ Running("github", "languages")
    /\ Step("github", 1,
            {OpenedFile(<<"github", "languages">> \o Head(at["github"].todo), ".json")},
            "graphql", at["github"].todo)

\* except KeyError: raise SystemExit -- raised in the job's thread, it ends that thread
SystemExitInThread(t) == [t EXCEPT !["github"] = "dead"]

github_graphql ==
    /\ Running("github", "graphql")
    /\ LET rest == Tail(at["github"].todo) IN
       \E answer \in {"no openGraphImageUrl", "avatars", "image"} :
         IF answer = "no openGraphImageUrl"
         THEN /\ httpCalls' = httpCalls + 1
              /\ th' = SystemExitInThread(th)
              /\ at' = [at EXCEPT !["github"] = [pc |-> "dead", todo |-> <<>>]]
              /\ UNCHANGED <<args, mainPc, next_thread, usage, exitCode, files>>
              /\ UNCHANGED <<fetchVars, chartVars>>
         ELSE IF answer = "avatars"
         THEN Step("github", 1, {}, IF rest = <<>> THEN "done" ELSE "languages", rest)
         ELSE Step("github", 1, {}, "image", at["github"].todo)

\* save_image_from_url (update.py 29-62), with size_x=624, size_y=312
github_image ==
    /\ Running("github", "image")
    /\ LET file_path == <<"github", "openGraphImages">> \o Head(at["github"].todo)
           rest == Tail(at["github"].todo)
       IN Step("github", 1,
               {OpenedFile(file_path, ".png"), OpenedFile(file_path, "_624x312.png")},
               IF rest = <<>> THEN "done" ELSE "languages", rest)

\* update_patreon (update.py 325-337)
update_patreon ==
    /\ Running("patreon", "begin")
    /\ Step("patreon", 1, {OpenedFile(<<"patreon", "LizardByte">>, ".json")}, "done", <<>>)

\* update_readthedocs (update.py 374-394).  Here every endpoint answers with
\* its last page at once; SpecFetch follows readthedocs_loop page by page.
readthedocs_projects ==
    /\ Running("readthedocs", "begin")
    /\ \E projects \in RtdProjects :
         Step("readthedocs", 1,
              IF ShouldWrite(projects)
              THEN {OpenedFile(<<"readthedocs", "projects">>, ".json")} ELSE {},
              IF LinkPairs(projects) = <<>> THEN "done" ELSE "link", LinkPairs(projects))

readthedocs_link ==
    /\ Running("readthedocs", "link")
    /\ LET pair == Head(at["readthedocs"].todo)
           rest == Tail(at["readthedocs"].todo)
       IN \E records \in {<<>>, <<"a">>} :
            Step("readthedocs", 1,
                 IF ShouldWrite(records)
                 THEN {OpenedFile(<<"readthedocs">> \o pair.link \o <<pair.repo_name>>, ".json")}
                 ELSE {},
                 IF rest = <<>> THEN "done" ELSE "link", rest)

JobStep(j) ==
    \/ j = "aur" /\ update_aur
    \/ j = "codecov" /\ (codecov_list \/ codecov_repo)
    \/ j = "crowdin" /\ (crowdin_list \/ crowdin_project)
    \/ j = "discord" /\ update_discord
    \/ j = "facebook" /\ update_fb
    \/ j = "github" /\ (github_repos \/ github_languages \/ github_graphql \/ github_image)
    \/ j = "patreon" /\ update_patreon
    \/ j = "readthedocs" /\ (readthedocs_projects \/ readthedocs_link)

(***************************************************************************)
(* Specifications                                                          *)
(***************************************************************************)
FetchIdle ==
    /\ srv = [u \in Urls |-> BadBody]
    /\ url = 0 /\ results = <<>> /\ loopPc = "idle"
    /\ log = <<>> /\ sink = <<>> /\ ret = <<>>

ChartIdle ==
    /\ progress = <<>> /\ data = <<>> /\ chartPc = "idle" /\ row = 0 /\ drawn = <<>>

RunIdle ==
    /\ args = [c \in Creds |-> TRUE]
    /\ mainPc = "idle" /\ next_thread = 0
    /\ th = [j \in Jobs |-> "new"]
    /\ at = [j \in Jobs |-> [pc |-> "begin", todo |-> <<>>]]
    /\ httpCalls = 0 /\ files = {} /\ usage = FALSE /\ exitCode = -1

\* The program: started with any combination of present and absent arguments.
Init ==
    /\ args \in [Creds -> BOOLEAN]
    /\ mainPc = "check" /\ next_thread = 1
    /\ th = [j \in Jobs |-> "new"]
    /\ at = [j \in Jobs |-> [pc |-> "begin", todo |-> <<>>]]
    /\ httpCalls = 0 /\ files = {} /\ usage = FALSE /\ exitCode = -1
    /\ FetchIdle /\ ChartIdle

Next ==
    \/ CheckArgs
    \/ StartThread
    \/ ProcessExit
    \/ update_aur
    \/ codecov_list
    \/ codecov_repo
    \/ crowdin_list
    \/ crowdin_project
    \/ update_discord
    \/ update_fb
    \/ github_repos
    \/ github_languages
    \/ github_graphql
    \/ github_image
    \/ update_patreon
    \/ readthedocs_projects
    \/ readthedocs_link

Spec == Init /\ [][Next]_vars

\* One call of readthedocs_loop against a finite chain of pages.
InitFetch ==
    /\ srv \in ChainServers
    /\ url = StartUrl /\ results = <<>> /\ loopPc = "get"
    /\ log = <<>> /\ sink = <<>> /\ ret = <<>>
    /\ ChartIdle /\ RunIdle

NextFetch == Request \/ Response \/ Return

SpecFetch == InitFetch /\ [][NextFetch]_vars

\* One call of readthedocs_loop against 'next' links that may lead back; the
\* thread running the loop keeps running.
InitCycle ==
    /\ srv \in CycleServers
    /\ url = StartUrl /\ results = <<>> /\ loopPc = "get"
    /\ log = <<>> /\ sink = <<>> /\ ret = <<>>
    /\ ChartIdle /\ RunIdle

NextCycle == RequestUnlogged \/ Response \/ Return

FairSpecFetch == InitCycle /\ [][NextCycle]_vars /\ WF_vars(NextCycle)

\* The ordering and drawing of one project's chart.
InitChart ==
    /\ progress \in ProgressLists
    /\ data = <<>> /\ chartPc = "sort" /\ row = 0 /\ drawn = <<>>
    /\ FetchIdle /\ RunIdle

NextChart == SortData \/ DrawRow

SpecChart == InitChart /\ [][NextChart]_vars

(***************************************************************************)
(* Properties of readthedocs_loop                                          *)
(***************************************************************************)
\* The records a response contributes: its 'results' list, when it has one.
PageRecords(p) == IF p.json /\ p.hasResults THEN p.results ELSE <<>>

\* The concatenation of the records of the pages at the first n requests.
RECURSIVE Concatenation(_)
Concatenation(n) ==
    IF n = 0 THEN <<>> ELSE Concatenation(n - 1) \o PageRecords(srv[log[n]])

WrittenOnce(records) == IF records = <<>> THEN <<>> ELSE <<records>>

LastRequestUnparseable == log # <<>> /\ ~srv[log[Len(log)]].json

\* C1: when every page served is parseable, the requests follow the 'next'
\* links from the start URL until a page has no (or an empty) 'next', and the
\* value returned is the concatenation of the 'results' lists of the pages
\* requested, in request order and in page order, nothing dropped or merged.
C1_ReturnsConcatenation ==
    (loopPc = "returned" /\ \A i \in 1..Len(log) : srv[log[i]].json) =>
        /\ log # <<>>
        /\ log[1] = StartUrl
        /\ \A i \in 1..(Len(log) - 1) :
              srv[log[i]].hasNext /\ srv[log[i]].next = log[i + 1]
        /\ ~srv[log[Len(log)]].hasNext \/ srv[log[Len(log)]].next = 0
        /\ ret = Concatenation(Len(log))

\* Pages of 2, 2 and 1 records, the last without 'next': 5 records in order.
C1_ThreePages ==
    /\ loopPc = "returned"
    /\ Len(log) = 3
    /\ ~srv[log[3]].hasNext
    /\ ret = <<"a", "b", "a", "b", "a">>

\* C6: write_json_files is not called while pages are still being requested;
\* when the loop has returned it was called exactly once, with all the records
\* accumulated, if there are any, and not at all if there are none.
C6_WriteOnceIfNonEmpty ==
    /\ loopPc # "returned" => sink = <<>>
    /\ loopPc = "returned" => sink = WrittenOnce(Concatenation(Len(log)))

\* A drain of three pages whose records are written in one call.
C6_OneWrite ==
    /\ loopPc = "returned"
    /\ Len(log) = 3
    /\ Len(sink) = 1
    /\ Len(sink[1]) > 2

\* C7: an unparseable k-th response ends the loop: it is the last request, the
\* records of the k-1 pages before it are what is returned, and they are
\* written once when there are any.
C7_DecodeErrorStopsLoop ==
    /\ \A i \in 1..(Len(log) - 1) : srv[log[i]].json
    /\ (LastRequestUnparseable /\ loopPc # "response") =>
          /\ loopPc \in {"tail", "returned"}
          /\ results = Concatenation(Len(log) - 1)
    /\ (LastRequestUnparseable /\ loopPc = "returned") =>
          /\ ret = Concatenation(Len(log) - 1)
          /\ sink = WrittenOnce(Concatenation(Len(log) - 1))

\* The third response is unparseable and the two pages before it had records.
C7_ThirdUnparseable ==
    /\ loopPc = "returned"
    /\ Len(log) = 3
    /\ LastRequestUnparseable
    /\ Len(ret) > 2
    /\ sink = <<ret>>

\* C8: readthedocs_loop terminates whatever the 'next' links are, also when
\* one leads back to a URL already requested.
C8_LoopTerminates == <>(loopPc = "returned")

(***************************************************************************)
(* Properties of the chart                                                 *)
(***************************************************************************)
InProgress(id) == \E i \in 1..Len(progress) : progress[i].id = id

\* x is drawn before y: higher approval, then higher translation, then name.
DrawnBefore(x, y) ==
    \/ x.approvalProgress > y.approvalProgress
    \/ /\ x.approvalProgress = y.approvalProgress
       /\ x.translationProgress > y.translationProgress
    \/ /\ x.approvalProgress = y.approvalProgress
       /\ x.translationProgress = y.translationProgress
       /\ NameRank(LangName[x.id]) < NameRank(LangName[y.id])

\* C9: the rows are drawn in the order (approval descending, translation
\* descending, name ascending), except that the entry 'en', when there is one,
\* is drawn first; every entry is drawn exactly once.
C9_DrawingOrder ==
    chartPc = "done" =>
        /\ Len(drawn) = Len(progress)
        /\ \A i \in 1..Len(progress) :
              \E k \in 1..Len(drawn) :
                 /\ drawn[k].id = progress[i].id
                 /\ drawn[k].translationProgress = progress[i].translationProgress
                 /\ drawn[k].approvalProgress = progress[i].approvalProgress
        /\ InProgress("en") => drawn[1].id = "en"
        /\ \A i, j \in 1..Len(drawn) :
              (i < j /\ drawn[i].id # "en" /\ drawn[j].id # "en") =>
                 DrawnBefore(drawn[i], drawn[j])

\* 'en' with the lowest approval is drawn first, then fr (100) before de (50).
C9_EnFrDe ==
    /\ chartPc = "done"
    /\ Len(drawn) = 3
    /\ drawn[1].id = "en" /\ drawn[1].approvalProgress = 0
    /\ drawn[2].id = "fr" /\ drawn[2].approvalProgress = 100
    /\ drawn[3].id = "de" /\ drawn[3].approvalProgress = 50
    /\ progress[1].id = "de"

HasBar(r, fill) == \E i \in 1..Len(r.bars) : r.bars[i].fill = fill
BarWidth100(r, fill) == r.bars[CHOOSE i \in 1..Len(r.bars) : r.bars[i].fill = fill].w100

\* C10: in every row drawn, with t the translation and a the approval
\* percentage: the grey bar is there iff t < 100; the translation bar, of width
\* 160*t/100, iff t > 0 and a < 100; the approval bar, of width 160*a/100, iff
\* a > 0.
C10_BarGuards ==
    \A k \in 1..Len(drawn) :
        LET r == drawn[k]
            t == r.translationProgress
            a == r.approvalProgress
        IN  /\ HasBar(r, "#999") <=> t < 100
            /\ HasBar(r, "#5D89C3") <=> (t > 0 /\ a < 100)
            /\ HasBar(r, "#5D89C3") => BarWidth100(r, "#5D89C3") = 160 * t
            /\ HasBar(r, "#71C277") <=> a > 0
            /\ HasBar(r, "#71C277") => BarWidth100(r, "#71C277") = 160 * a

(***************************************************************************)
(* Properties of the run                                                   *)
(***************************************************************************)
Ended(j) == th[j] \in {"done", "dead"}

\* Each of the nine credentials and identifiers has a non-empty value.
EveryCredential(a) == \A c \in Creds : a[c]

C3_MissingCredentialAborts ==
    (\E c \in Creds : ~args[c]) =>
        /\ \A j \in Jobs : th[j] = "new"
        /\ httpCalls = 0
        /\ files = {}
        /\ mainPc = "exited" => (usage /\ exitCode > 0)

\* C4: in a run with every credential present, no file is written by two
\* different jobs.
C4_DisjointPaths ==
    EveryCredential(args) =>
        \A w1, w2 \in files : w1[2] = w2[2] => w1[1] = w2[1]

\* C5: in a run with every credential present, once the GraphQL answer lacked
\* openGraphImageUrl, no job issues a request or writes a file any more, and
\* the process does not exit with 0.
C5_AbortStopsEveryJob ==
    [][(EveryCredential(args) /\ th["github"] = "dead") =>
          /\ httpCalls' = httpCalls
          /\ files' = files
          /\ exitCode' # 0]_vars

=============================================================================
